---- MODULE Spec2Model ----
(***************************************************************************)
(* izi-drummer (src/main.js): the pattern buffer, the pattern library, the *)
(* arrangement timeline and the playback scheduler, as a state machine.    *)
(*                                                                         *)
(* JavaScript arrays are 0-based, TLA+ sequences 1-based: a row or step    *)
(* index i of the source is element i + 1 of the sequence that models it.  *)
(* A name is a sequence of tokens, a token being a word or the blank " ",  *)
(* so that String.prototype.trim is computed and not assumed.              *)
(***************************************************************************)
EXTENDS Integers, Sequences, FiniteSets, TLC

\* ------------------------------------------------------------------ bounds
\* A tick with an empty timeline never stops: the counter is capped here.
MaxTick == 3
\* Export clicks whose timeout has not fired yet.
MaxExports == 1
\* Step counts typed into the steps field: 0 .. MaxNewSteps, and 65.
MaxNewSteps == 2
\* Tracks the kit may grow to in the specifications that are not about capacity.
MaxKit == 9
\* The far bar of the timeline clicks (bars 0, 1 and FarBar).
FarBar == 10

\* ------------------------------------------------------- program constants
NOTE_POOL ==
    << "C1", "D1", "E1", "F1", "F#1", "G1", "A1", "B1",
       "C2", "D2", "E2", "F2", "F#2", "G2", "A2", "B2",
       "C3", "D3", "E3", "F3", "F#3", "G3", "A3", "B3" >>

InitialKit ==
    << [name |-> <<"Kick">>,      note |-> "C1"],
       [name |-> <<"Snare">>,     note |-> "D1"],
       [name |-> <<"Tom 1">>,     note |-> "E1"],
       [name |-> <<"Tom 2">>,     note |-> "F1"],
       [name |-> <<"Floor Tom">>, note |-> "G1"],
       [name |-> <<"Hi-Hat Cl">>, note |-> "F#1"],
       [name |-> <<"Hi-Hat Op">>, note |-> "A1"],
       [name |-> <<"Crash">>,     note |-> "B1"] >>

TIMELINE_BARS == 64
DefaultSteps == 16
MaxStepsAllowed == 64

\* ------------------------------------------------------------ JS values
\* null, as held by currentActivePattern before any save or load.
Null == <<"<null>">>
EmptyStr == << >>
Blank == " "

\* JavaScript truthiness of a value that is null or a string.
Truthy(v) == v # Null /\ v # EmptyStr

\* String.prototype.trim: drops the blanks at both ends.
RECURSIVE TrimLeft(_)
TrimLeft(s) ==
    IF s = << >> THEN s
    ELSE IF Head(s) = Blank THEN TrimLeft(Tail(s)) ELSE s

RECURSIVE TrimRight(_)
TrimRight(s) ==
    IF s = << >> THEN s
    ELSE IF s[Len(s)] = Blank THEN TrimRight(SubSeq(s, 1, Len(s) - 1)) ELSE s

Trim(s) == TrimRight(TrimLeft(s))

\* patternLibrary is a plain object ({}): a property read finds the own
\* properties (the saved patterns) and, failing that, Object.prototype's.
ProtoNames == { <<"constructor">> }

HasOwn(lib, name) == name \in DOMAIN lib

\* patternLibrary[name] is truthy: a saved matrix, or an inherited member.
LibTruthy(lib, name) == HasOwn(lib, name) \/ name \in ProtoNames

\* A zero row of the default length, whatever the step count.
ZeroRowOfDefault(n) == [i \in 1..DefaultSteps |-> 0]

\* Array(n).fill(0)
ZeroRow(n) == [i \in 1..n |-> 0]

\* Array(drumKit.length).fill().map(() => Array(currentSteps).fill(0))
ZeroGrid(rows, n) == [r \in 1..rows |-> ZeroRow(n)]

VARIABLES
    drumKit,               \* the track registry: <<[name, note], ...>>
    currentSteps,          \* the editor's step count
    gridData,              \* the pattern buffer: rows of 0/1 cells
    patternLibrary,        \* own properties: name -> saved matrix
    songTimeline,          \* the arrangement: <<[name, startBar], ...>>
    currentActivePattern,  \* Null or the name being live-edited
    globalStep,            \* the scheduler's tick counter
    transportState,        \* Tone.Transport.state: "stopped" or "started"
    recorderState,         \* Tone.Recorder state: "stopped" or "started"
    exports,               \* pending export timeouts: <<[wasPlaying, phase], ...>>
    kitLoaded,             \* kit.loaded of the sampler
    emitted,               \* the triggers the last step sent to the sampler
    lastOp,                \* the handler that ran last, with its outcome
    tickObs,               \* what the last tick resolved: [g, idx, localStep]
    addsOk                 \* how many add-piece clicks added a track

coreVars ==
    << drumKit, currentSteps, gridData, patternLibrary, songTimeline,
       currentActivePattern, globalStep >>

vars ==
    << drumKit, currentSteps, gridData, patternLibrary, songTimeline,
       currentActivePattern, globalStep, transportState, recorderState,
       exports, kitLoaded, emitted, lastOp, tickObs, addsOk >>

NoTick == [g |-> 0 - 1, idx |-> 0, localStep |-> 0]

Init ==
    /\ drumKit = InitialKit
    /\ currentSteps = DefaultSteps
    /\ gridData = ZeroGrid(Len(InitialKit), DefaultSteps)
    /\ patternLibrary = << >>
    /\ songTimeline = << >>
    /\ currentActivePattern = Null
    /\ globalStep = 0
    /\ transportState = "stopped"
    /\ recorderState = "stopped"
    /\ exports = << >>
    /\ kitLoaded = TRUE
    /\ emitted = << >>
    /\ lastOp = "init"
    /\ tickObs = NoTick
    /\ addsOk = 0

\* ------------------------------------------------------------ the kit
Undefined == "<undefined>"

UsedNotes(kit) == { kit[i].note : i \in 1..Len(kit) }

\* A find that stops one short of the pool's end.
NextNoteSkipLast(kit) ==
    LET free == { i \in 1..(Len(NOTE_POOL) - 1) : NOTE_POOL[i] \notin UsedNotes(kit) }
    IN  IF free = {} THEN Undefined
        ELSE NOTE_POOL[CHOOSE i \in free : \A j \in free : i <= j]

\* NOTE_POOL.find(n => !usedNotes.includes(n)): the first unused note.
NextNote(kit) ==
    LET free == { i \in 1..Len(NOTE_POOL) : NOTE_POOL[i] \notin UsedNotes(kit) }
    IN  IF free = {} THEN Undefined
        ELSE NOTE_POOL[CHOOSE i \in free : \A j \in free : i <= j]

\* A save that writes the buffer over every entry of the library.
SaveCurrentToLibraryEverywhere(lib, active, grid) ==
    IF ~Truthy(active) THEN lib
    ELSE [n \in (DOMAIN lib) \cup {active} |-> grid]

\* A save that stores nothing.
SaveCurrentToLibraryNowhere(lib, active, grid) == lib

\* saveCurrentToLibrary: JSON.parse(JSON.stringify(gridData)) under the
\* active name; values are immutable here, so the copy is the value.
SaveCurrentToLibrary(lib, active, grid) ==
    IF ~Truthy(active) THEN lib
    ELSE [n \in (DOMAIN lib) \cup {active} |-> IF n = active THEN grid ELSE lib[n]]

\* The auto-save the mutators end with: if (currentActivePattern) save.
AutoSave(lib, active, grid) ==
    IF Truthy(active) THEN SaveCurrentToLibrary(lib, active, grid) ELSE lib

\* The add-piece button: prompt() gave `name` (null when cancelled).
AddPieceClick(name) ==
    /\ tickObs' = NoTick
    /\ emitted' = << >>
    /\ UNCHANGED << currentSteps, patternLibrary, songTimeline,
                    currentActivePattern, globalStep, transportState,
                    recorderState, exports, kitLoaded >>
    /\ IF ~Truthy(name)
       THEN /\ lastOp' = "addPieceCancelled"
            /\ UNCHANGED << drumKit, gridData, addsOk >>
       ELSE LET nextNote == NextNote(drumKit) IN
            IF nextNote = Undefined
            THEN /\ lastOp' = "addPieceFull"
                 /\ UNCHANGED << drumKit, gridData, addsOk >>
            ELSE /\ drumKit' = Append(drumKit, [name |-> name, note |-> nextNote])
                 /\ gridData' = Append(gridData, ZeroRow(currentSteps))
                 /\ addsOk' = addsOk + 1
                 /\ lastOp' = "addPiece"

\* ------------------------------------------------------- the grid editor
\* A resize that repeats the last old cell instead of filling with zeros.
AdjustRowNoFill(row, newStepCount) ==
    [i \in 1..newStepCount |-> IF i <= Len(row) THEN row[i] ELSE row[Len(row)]]

\* adjustGridSize, one row: newStepCount zeros, then the old cells copied.
AdjustRow(row, newStepCount) ==
    [i \in 1..newStepCount |-> IF i <= Len(row) THEN row[i] ELSE 0]

AdjustGridSize(grid, newStepCount) ==
    [r \in 1..Len(grid) |-> AdjustRow(grid[r], newStepCount)]

\* The steps field's change handler; newSteps is what parseInt returned.
StepsChange(newSteps) ==
    /\ tickObs' = NoTick
    /\ emitted' = << >>
    /\ UNCHANGED << drumKit, songTimeline, currentActivePattern, globalStep,
                    transportState, recorderState, exports, kitLoaded, addsOk >>
    /\ IF newSteps > 0 /\ newSteps <= MaxStepsAllowed
       THEN /\ currentSteps' = newSteps
            /\ gridData' = AdjustGridSize(gridData, newSteps)
            /\ patternLibrary' =
                   AutoSave(patternLibrary, currentActivePattern, gridData')
            /\ lastOp' = "resize"
       ELSE /\ lastOp' = "resizeRejected"
            /\ UNCHANGED << currentSteps, gridData, patternLibrary >>

\* A click that sets the cell and never clears it.
FlipCellSetOnly(grid, row, step) ==
    [grid EXCEPT ![row + 1][step + 1] = 1]

\* gridData[row][step] = gridData[row][step] === 1 ? 0 : 1
FlipCell(grid, row, step) ==
    [grid EXCEPT ![row + 1][step + 1] = IF @ = 1 THEN 0 ELSE 1]

\* The grid's mousedown handler, for a click on (row, step).
GridMouseDown(row, step) ==
    /\ tickObs' = NoTick
    /\ UNCHANGED << drumKit, currentSteps, songTimeline, currentActivePattern,
                    globalStep, transportState, recorderState, exports,
                    kitLoaded, addsOk >>
    /\ IF row >= Len(drumKit) \/ step >= currentSteps
       THEN /\ lastOp' = "toggleOutOfRange"
            /\ emitted' = << >>
            /\ UNCHANGED << gridData, patternLibrary >>
       ELSE /\ gridData' = FlipCell(gridData, row, step)
            /\ emitted' = IF gridData'[row + 1][step + 1] = 1 /\ kitLoaded
                          THEN << drumKit[row + 1].note >> ELSE << >>
            /\ patternLibrary' =
                   AutoSave(patternLibrary, currentActivePattern, gridData')
            /\ lastOp' = "toggle"

\* The clear button: resetGridData, then the auto-save.
ClearClick ==
    /\ gridData' = ZeroGrid(Len(drumKit), currentSteps)
    /\ patternLibrary' = AutoSave(patternLibrary, currentActivePattern, gridData')
    /\ lastOp' = "clear"
    /\ tickObs' = NoTick
    /\ emitted' = << >>
    /\ UNCHANGED << drumKit, currentSteps, songTimeline, currentActivePattern,
                    globalStep, transportState, recorderState, exports,
                    kitLoaded, addsOk >>

\* ----------------------------------------------------------- the library
\* The save button; raw is the text of the part-name field.
SavePartClick(raw) ==
    /\ tickObs' = NoTick
    /\ emitted' = << >>
    /\ UNCHANGED << drumKit, currentSteps, gridData, songTimeline, globalStep,
                    transportState, recorderState, exports, kitLoaded, addsOk >>
    /\ LET name == Trim(raw) IN
       IF ~Truthy(name)
       THEN /\ lastOp' = "saveAsInvalid"
            /\ UNCHANGED << patternLibrary, currentActivePattern >>
       ELSE /\ patternLibrary' = SaveCurrentToLibrary(patternLibrary, name, gridData)
            /\ currentActivePattern' = name
            /\ lastOp' = "saveAs"

\* A merge that keeps the stored rows and pads nothing.
MergeRowsNoPad(kit, savedData, steps) == savedData

\* loadPattern's merge: the stored row where there is one, else a zero row.
MergeRows(kit, savedData, steps) ==
    [i \in 1..Len(kit) |-> IF i <= Len(savedData) THEN savedData[i] ELSE ZeroRow(steps)]

\* A library button (one per Object.keys(patternLibrary)) calls loadPattern.
LoadPattern(name) ==
    /\ name \in DOMAIN patternLibrary
    /\ LET savedData  == patternLibrary[name]
           savedSteps == IF Len(savedData) > 0 THEN Len(savedData[1]) ELSE DefaultSteps
       IN  /\ currentActivePattern' = name
           /\ currentSteps' = savedSteps
           /\ gridData' = MergeRows(drumKit, savedData, savedSteps)
    /\ lastOp' = "load"
    /\ tickObs' = NoTick
    /\ emitted' = << >>
    /\ UNCHANGED << drumKit, patternLibrary, songTimeline, globalStep,
                    transportState, recorderState, exports, kitLoaded, addsOk >>

\* ---------------------------------------------------------- the timeline
\* songTimeline.filter(b => b.startBar !== bar)
RECURSIVE WithoutBar(_, _)
WithoutBar(tl, bar) ==
    IF tl = << >> THEN << >>
    ELSE IF Head(tl).startBar # bar
         THEN << Head(tl) >> \o WithoutBar(Tail(tl), bar)
         ELSE WithoutBar(Tail(tl), bar)

\* A placement that forgets the filter.
PlaceKeepOld(tl, bar, name) == Append(tl, [name |-> name, startBar |-> bar])

\* The placement of the left click: filter, then push.
Place(tl, bar, name) ==
    Append(WithoutBar(tl, bar), [name |-> name, startBar |-> bar])

\* The timeline's mousedown handler (left button) on `bar`, the part-name
\* field holding raw.
TimelineMouseDown(bar, raw) ==
    /\ tickObs' = NoTick
    /\ emitted' = << >>
    /\ UNCHANGED << drumKit, currentSteps, gridData, patternLibrary,
                    currentActivePattern, globalStep, transportState,
                    recorderState, exports, kitLoaded, addsOk >>
    /\ LET name == Trim(raw) IN
       IF LibTruthy(patternLibrary, name)
       THEN /\ songTimeline' = Place(songTimeline, bar, name)
            /\ lastOp' = "place"
       ELSE /\ lastOp' = "placeNotFound"
            /\ UNCHANGED songTimeline

\* songTimeline.findIndex(b => b.startBar === bar), 1-based; 0 for -1.
FindIndex(tl, bar) ==
    LET hits == { i \in 1..Len(tl) : tl[i].startBar = bar }
    IN  IF hits = {} THEN 0 ELSE CHOOSE i \in hits : \A j \in hits : i <= j

\* songTimeline.splice(idx, 1)
Splice(tl, idx) == SubSeq(tl, 1, idx - 1) \o SubSeq(tl, idx + 1, Len(tl))

\* The timeline's contextmenu handler (right click) on `bar`.
TimelineContextMenu(bar) ==
    /\ tickObs' = NoTick
    /\ emitted' = << >>
    /\ UNCHANGED << drumKit, currentSteps, gridData, patternLibrary,
                    currentActivePattern, globalStep, transportState,
                    recorderState, exports, kitLoaded, addsOk >>
    /\ LET idx == FindIndex(songTimeline, bar) IN
       IF idx # 0
       THEN /\ songTimeline' = Splice(songTimeline, idx)
            /\ lastOp' = "remove"
       ELSE /\ lastOp' = "removeNothing"
            /\ UNCHANGED songTimeline

\* -------------------------------------------------------- the scheduler
\* Array.prototype.sort((a, b) => a.startBar - b.startBar): stable, in place.
RECURSIVE InsertByBar(_, _)
InsertByBar(sorted, block) ==
    IF sorted = << >> THEN << block >>
    ELSE IF Head(sorted).startBar <= block.startBar
         THEN << Head(sorted) >> \o InsertByBar(Tail(sorted), block)
         ELSE << block >> \o sorted

\* A sort that loses the last entry when it has to move it.
SortByBarLosing(tl) ==
    IF Len(tl) >= 2 /\ tl[Len(tl)].startBar < tl[Len(tl) - 1].startBar
    THEN SubSeq(tl, 1, Len(tl) - 1)
    ELSE tl

\* songTimeline.sort(...): the stable sort, by insertion.
RECURSIVE SortByBar(_)
SortByBar(tl) ==
    IF tl = << >> THEN << >>
    ELSE InsertByBar(SortByBar(SubSeq(tl, 1, Len(tl) - 1)), tl[Len(tl)])

\* The scan for the block globalStep falls in, from entry i with
\* accumulatedSteps = acc. An entry whose name is an inherited member of the
\* library object has no row 0: pattern[0].length throws a TypeError.
RECURSIVE ScanFrom(_, _, _, _, _)
ScanFrom(sorted, lib, g, i, acc) ==
    IF i > Len(sorted)
    THEN [threw |-> FALSE, idx |-> 0, localStep |-> 0, accumulatedSteps |-> acc]
    ELSE LET name == sorted[i].name IN
         IF HasOwn(lib, name)
         THEN LET patternLength == Len(lib[name][1]) IN
              IF g >= acc /\ g < acc + patternLength
              THEN [threw |-> FALSE, idx |-> i, localStep |-> g - acc,
                    accumulatedSteps |-> acc]
              ELSE ScanFrom(sorted, lib, g, i + 1, acc + patternLength)
         ELSE IF name \in ProtoNames
         THEN [threw |-> TRUE, idx |-> 0, localStep |-> 0, accumulatedSteps |-> acc]
         ELSE ScanFrom(sorted, lib, g, i + 1, acc)

\* A scan that takes each block's window to start at its bar, a bar being
\* DefaultSteps steps long: the gaps between bars honoured.
FindBlockByBar(sorted, lib, g) ==
    LET hits == { i \in 1..Len(sorted) : HasOwn(lib, sorted[i].name) /\
                  sorted[i].startBar * DefaultSteps <= g /\
                  g < sorted[i].startBar * DefaultSteps + Len(lib[sorted[i].name][1]) }
    IN  IF hits = {}
        THEN [threw |-> FALSE, idx |-> 0, localStep |-> 0, accumulatedSteps |-> 0]
        ELSE LET i == CHOOSE h \in hits : TRUE IN
             [threw |-> FALSE, idx |-> i,
              localStep |-> g - sorted[i].startBar * DefaultSteps,
              accumulatedSteps |-> 0]

\* Step 2 of the callback: which block globalStep falls in.
FindBlock(sorted, lib, g) == ScanFrom(sorted, lib, g, 1, 0)

\* The triggers of one step: a triggerAttack per row r with a track and
\* pattern[r][localStep] === 1, in row order.
RECURSIVE TriggersFrom(_, _, _, _)
TriggersFrom(kit, pattern, localStep, r) ==
    IF r > Len(pattern) THEN << >>
    ELSE (IF r <= Len(kit) /\ pattern[r][localStep + 1] = 1
          THEN << kit[r].note >> ELSE << >>)
         \o TriggersFrom(kit, pattern, localStep, r + 1)

\* A trigger loop that reads the cells of the pattern buffer.
TriggersOfBuffer(kit, pattern, localStep) ==
    IF localStep < currentSteps
    THEN TriggersFrom(kit, gridData, localStep, 1)
    ELSE << >>

Triggers(kit, pattern, localStep) == TriggersFrom(kit, pattern, localStep, 1)

\* A stop condition without the length test.
PastLastBlockAnyLength(g, accumulatedSteps, sortedTimeline) ==
    g >= accumulatedSteps

\* if (globalStep >= accumulatedSteps && sortedTimeline.length > 0)
PastLastBlock(g, accumulatedSteps, sortedTimeline) ==
    g >= accumulatedSteps /\ Len(sortedTimeline) > 0

\* The counter the tick leaves when it stops the song: stopPlayback() sets
\* it to 0 and the callback's closing globalStep++ then runs.
CounterAfterAutoStop == 0 + 1

\* The scheduleRepeat callback: one "16n" pulse of the running transport.
Tick ==
    /\ transportState = "started"
    /\ globalStep < MaxTick \/ songTimeline # << >>
    /\ LET sortedTimeline == SortByBar(songTimeline)
           res == FindBlock(sortedTimeline, patternLibrary, globalStep)
       IN  /\ songTimeline' = sortedTimeline
           /\ IF res.threw
              THEN /\ lastOp' = "tickThrew"
                   /\ tickObs' = [g |-> globalStep, idx |-> 0, localStep |-> 0]
                   /\ emitted' = << >>
                   /\ UNCHANGED << globalStep, transportState >>
              ELSE IF res.idx # 0
              THEN /\ lastOp' = "tick"
                   /\ tickObs' = [g |-> globalStep, idx |-> res.idx,
                                  localStep |-> res.localStep]
                   /\ emitted' = Triggers(drumKit,
                                     patternLibrary[sortedTimeline[res.idx].name],
                                     res.localStep)
                   /\ globalStep' = globalStep + 1
                   /\ UNCHANGED transportState
              ELSE IF PastLastBlock(globalStep, res.accumulatedSteps, sortedTimeline)
              THEN /\ lastOp' = "tickStopped"
                   /\ tickObs' = [g |-> globalStep, idx |-> 0, localStep |-> 0]
                   /\ emitted' = << >>
                   /\ transportState' = "stopped"
                   /\ globalStep' = CounterAfterAutoStop
              ELSE /\ lastOp' = "tick"
                   /\ tickObs' = [g |-> globalStep, idx |-> 0, localStep |-> 0]
                   /\ emitted' = << >>
                   /\ globalStep' = globalStep + 1
                   /\ UNCHANGED transportState
    /\ UNCHANGED << drumKit, currentSteps, gridData, patternLibrary,
                    currentActivePattern, recorderState, exports, kitLoaded,
                    addsOk >>

\* The play button: stopPlayback() when started, Tone.Transport.start() else.
PlayClick ==
    /\ IF transportState = "started"
       THEN /\ transportState' = "stopped"
            /\ globalStep' = 0
            /\ lastOp' = "stop"
       ELSE /\ transportState' = "started"
            /\ lastOp' = "play"
            /\ UNCHANGED globalStep
    /\ tickObs' = NoTick
    /\ emitted' = << >>
    /\ UNCHANGED << drumKit, currentSteps, gridData, patternLibrary,
                    songTimeline, currentActivePattern, recorderState, exports,
                    kitLoaded, addsOk >>

\* ------------------------------------------------------------- the export
\* The export button: stopPlayback(), recorder.start(), Transport.start(),
\* and a timeout armed. recorder.start() on a started recorder only rejects
\* its promise, which nothing awaits.
ExportClick ==
    /\ Len(exports) < MaxExports
    /\ exports' = Append(exports, [wasPlaying |-> transportState = "started",
                                   phase |-> "waiting"])
    /\ globalStep' = 0
    /\ recorderState' = "started"
    /\ transportState' = "started"
    /\ lastOp' = "export"
    /\ tickObs' = NoTick
    /\ emitted' = << >>
    /\ UNCHANGED << drumKit, currentSteps, gridData, patternLibrary,
                    songTimeline, currentActivePattern, kitLoaded, addsOk >>

\* The timeout fires: Tone.Transport.stop(), then await recorder.stop(),
\* which rejects (ending the callback) when the recorder is already stopped.
ExportTimeout(i) ==
    /\ i \in 1..Len(exports)
    /\ exports[i].phase = "waiting"
    /\ transportState' = "stopped"
    /\ IF recorderState = "started"
       THEN /\ recorderState' = "stopped"
            /\ exports' = [exports EXCEPT ![i].phase = "saving"]
       ELSE /\ exports' = Splice(exports, i)
            /\ UNCHANGED recorderState
    /\ lastOp' = "exportTimeout"
    /\ tickObs' = NoTick
    /\ emitted' = << >>
    /\ UNCHANGED << drumKit, currentSteps, gridData, patternLibrary,
                    songTimeline, currentActivePattern, globalStep, kitLoaded,
                    addsOk >>

\* The recording has arrived: the download, then the restart if the song
\* was playing when the export began.
ExportFinish(i) ==
    /\ i \in 1..Len(exports)
    /\ exports[i].phase = "saving"
    /\ exports' = Splice(exports, i)
    /\ transportState' = IF exports[i].wasPlaying THEN "started" ELSE transportState
    /\ lastOp' = "exportFinish"
    /\ tickObs' = NoTick
    /\ emitted' = << >>
    /\ UNCHANGED << drumKit, currentSteps, gridData, patternLibrary,
                    songTimeline, currentActivePattern, globalStep,
                    recorderState, kitLoaded, addsOk >>

\* ------------------------------------------------------------ the sampler
\* A file chosen on a pad: kit.add() starts loading, kit.loaded goes false.
UploadChange ==
    /\ kitLoaded
    /\ kitLoaded' = FALSE
    /\ lastOp' = "upload"
    /\ tickObs' = NoTick
    /\ emitted' = << >>
    /\ UNCHANGED << drumKit, currentSteps, gridData, patternLibrary,
                    songTimeline, currentActivePattern, globalStep,
                    transportState, recorderState, exports, addsOk >>

\* The sample has been decoded: await kit.add() returns.
UploadDone ==
    /\ ~kitLoaded
    /\ kitLoaded' = TRUE
    /\ lastOp' = "uploaded"
    /\ tickObs' = NoTick
    /\ emitted' = << >>
    /\ UNCHANGED << drumKit, currentSteps, gridData, patternLibrary,
                    songTimeline, currentActivePattern, globalStep,
                    transportState, recorderState, exports, addsOk >>

\* ------------------------------------------------------------ the inputs
PieceNames == { Null, <<"Cowbell">> }
NewStepsIn == (0..MaxNewSteps) \cup { MaxStepsAllowed + 1 }
ClickRows == { 0, Len(InitialKit) }
ClickSteps == { 0, 1 }
RawNames == { EmptyStr, <<Blank>>, <<"A">>, <<Blank, "B", Blank>>, <<"constructor">> }
\* Math.floor(x / TIMELINE_BAR_WIDTH) on a canvas TIMELINE_BARS bars wide.
Bars == { b \in { 0, 1, FarBar } : b < TIMELINE_BARS }

AddPiece == \E name \in PieceNames : Len(drumKit) < MaxKit /\ AddPieceClick(name)
Resize == \E n \in NewStepsIn : StepsChange(n)
Toggle == \E row \in ClickRows, step \in ClickSteps : GridMouseDown(row, step)
Clear == ClearClick
SaveAs == \E raw \in RawNames : SavePartClick(raw)
Load == \E name \in DOMAIN patternLibrary : LoadPattern(name)
PlaceBlock == \E bar \in Bars, raw \in RawNames : TimelineMouseDown(bar, raw)
RemoveBlock == \E bar \in Bars : TimelineContextMenu(bar)
ExportDue == \E i \in 1..Len(exports) : ExportTimeout(i)
ExportSaved == \E i \in 1..Len(exports) : ExportFinish(i)

Next ==
    \/ AddPiece
    \/ Resize
    \/ Toggle
    \/ Clear
    \/ SaveAs
    \/ Load
    \/ PlaceBlock
    \/ RemoveBlock
    \/ Tick
    \/ PlayClick
    \/ ExportClick
    \/ ExportDue
    \/ ExportSaved
    \/ UploadChange
    \/ UploadDone

Spec == Init /\ [][Next]_vars

\* ------------------------------------------- the arrangement and its playback
\* The same handlers, on short patterns and two bars, without the editor's
\* cell clicks: what the scheduler does with a timeline.
SchedSaveNames == { EmptyStr, <<"A">>, <<Blank, "B", Blank>> }
SchedNames == SchedSaveNames \cup { <<"constructor">> }
SchedBars == { b \in { 0, FarBar } : b < TIMELINE_BARS }

SchedResize == \E n \in 1..MaxNewSteps : StepsChange(n)
SchedSaveAs ==
    \E raw \in SchedSaveNames : currentSteps <= MaxNewSteps /\ SavePartClick(raw)
SchedPlace == \E bar \in SchedBars, raw \in SchedNames : TimelineMouseDown(bar, raw)
SchedRemove == \E bar \in SchedBars : TimelineContextMenu(bar)

NextSched ==
    \/ SchedResize
    \/ SchedSaveAs
    \/ SchedPlace
    \/ SchedRemove
    \/ Tick
    \/ PlayClick

SpecSched == Init /\ [][NextSched]_vars

\* --------------------------------------------------- what the claims read
TickOps == { "tick", "tickStopped", "tickThrew" }

Entries(tl) == { tl[i] : i \in 1..Len(tl) }

\* The step count of the pattern an entry names: its row 0's length, and 0
\* for a name the library does not hold.
PatLen(lib, e) == IF HasOwn(lib, e.name) THEN Len(lib[e.name][1]) ELSE 0

RECURSIVE SumLen(_, _)
SumLen(lib, S) ==
    IF S = {} THEN 0
    ELSE LET e == CHOOSE x \in S : TRUE
         IN  PatLen(lib, e) + SumLen(lib, S \ {e})

\* The steps of the entries placed at lower bars than e.
LengthBefore(lib, tl, e) ==
    SumLen(lib, { f \in Entries(tl) : f.startBar < e.startBar })

TotalLength(lib, tl) == SumLen(lib, Entries(tl))

AllStored(lib, tl) == \A e \in Entries(tl) : HasOwn(lib, e.name)

NameA == <<"A">>
NameB == <<"B">>

\* C1. Scheduler concatenation: a tick at globalTick g resolves to the
\* entry whose window [sum of the lengths at lower bars, + its own length)
\* holds g, with localStep = g less that sum, whatever the bar numbers are;
\* a tick past every window of a non-empty timeline stops the song.
C1_Concatenation ==
    (lastOp \in TickOps /\ AllStored(patternLibrary, songTimeline)) =>
        LET g == tickObs.g
            InWindow(e) ==
                /\ LengthBefore(patternLibrary, songTimeline, e) <= g
                /\ g < LengthBefore(patternLibrary, songTimeline, e)
                         + PatLen(patternLibrary, e)
        IN  /\ \A e \in Entries(songTimeline) :
                   InWindow(e) =>
                       /\ lastOp = "tick"
                       /\ tickObs.idx # 0
                       /\ songTimeline[tickObs.idx] = e
                       /\ tickObs.localStep =
                              g - LengthBefore(patternLibrary, songTimeline, e)
            /\ (\A e \in Entries(songTimeline) : ~InWindow(e)) =>
                   /\ tickObs.idx = 0
                   /\ songTimeline # << >> => lastOp = "tickStopped"

\* A tick resolved to step 1 of the second block, B of two steps at the far
\* bar, after A of one step at bar 0: globalTick 2.
C1_Witness ==
    /\ lastOp = "tick"
    /\ Len(songTimeline) = 2
    /\ songTimeline[1] = [name |-> NameA, startBar |-> 0]
    /\ songTimeline[2] = [name |-> NameB, startBar |-> FarBar]
    /\ Len(patternLibrary[NameA][1]) = 1
    /\ tickObs = [g |-> 2, idx |-> 2, localStep |-> 1]

\* C2. Whenever the scheduler is Stopped the global tick counter is 0.
C2_StoppedAtZero == transportState = "stopped" => globalStep = 0

\* C3. After a Stopped -> Running transition the first tick evaluates
\* globalTick 0: the transport starts with the counter at 0.
C3_StartsAtZero ==
    (transportState = "started" /\ lastOp \in { "play", "export", "exportFinish" })
        => globalStep = 0

\* C4. Auto-stop: a tick of a non-empty timeline at a globalTick that is at
\* least the total length of the placed blocks matches no entry, emits
\* nothing and leaves the scheduler Stopped.
C4_AutoStop ==
    (/\ lastOp \in TickOps
     /\ songTimeline # << >>
     /\ tickObs.g >= TotalLength(patternLibrary, songTimeline))
        => /\ lastOp = "tickStopped"
           /\ tickObs.idx = 0
           /\ emitted = << >>
           /\ transportState = "stopped"

\* C5. Empty arrangement: a tick of an empty timeline never stops the
\* scheduler and emits nothing; it adds exactly one to the counter.
C5_EmptyNeverStops ==
    (lastOp \in TickOps /\ songTimeline = << >>) =>
        /\ lastOp = "tick"
        /\ transportState = "started"
        /\ globalStep = tickObs.g + 1
        /\ tickObs.idx = 0
        /\ emitted = << >>

\* Ticks of an empty timeline have run the counter up to the cap.
C5_Witness ==
    /\ lastOp = "tick"
    /\ songTimeline = << >>
    /\ patternLibrary # << >>
    /\ globalStep = MaxTick

\* C7. Placement uniqueness: the timeline never holds two entries at one
\* bar; a successful place(b, n) leaves exactly one entry at b, naming n,
\* and the entries at every other bar as they were.
C7_PlacementUnique ==
    [][ /\ \A i, j \in 1..Len(songTimeline') :
               i # j => songTimeline'[i].startBar # songTimeline'[j].startBar
        /\ \A b \in SchedBars, raw \in SchedNames :
               (TimelineMouseDown(b, raw) /\ lastOp' = "place") =>
                   /\ { e \in Entries(songTimeline') : e.startBar = b }
                          = { [name |-> Trim(raw), startBar |-> b] }
                   /\ { e \in Entries(songTimeline') : e.startBar # b }
                          = { e \in Entries(songTimeline) : e.startBar # b }
                   /\ Len(songTimeline') = Cardinality(Entries(songTimeline'))
      ]_vars

\* B has just been placed at bar 0, the far bar holding A.
C7_Witness ==
    /\ lastOp = "place"
    /\ songTimeline = << [name |-> NameA, startBar |-> FarBar],
                         [name |-> NameB, startBar |-> 0] >>

\* C8. A failing operation (a toggle out of range, a save under a blank
\* name, a place of a name the library does not hold, an add-piece with the
\* note pool used up) leaves the registry, the buffer, the step count, the
\* library, the active pointer, the timeline and the counter as they were,
\* and emits no trigger.
C8_FailuresChangeNothing ==
    [][ ( \/ \E row \in ClickRows, step \in ClickSteps :
                 /\ GridMouseDown(row, step)
                 /\ (row >= Len(drumKit) \/ step >= currentSteps)
          \/ \E raw \in RawNames :
                 SavePartClick(raw) /\ Trim(raw) = EmptyStr
          \/ \E bar \in Bars, raw \in RawNames :
                 TimelineMouseDown(bar, raw) /\ ~HasOwn(patternLibrary, Trim(raw))
          \/ \E name \in PieceNames :
                 AddPieceClick(name) /\ Len(drumKit) >= Len(NOTE_POOL) )
        => (UNCHANGED coreVars /\ emitted' = << >>)
      ]_vars

\* ------------------------------------------------- the editor on its own
\* The kit, the buffer and the library, without the timeline, the transport
\* and the sample uploads.
EditNames == { EmptyStr, <<Blank>>, <<"A">>, <<Blank, "B", Blank>> }

EditSaveAs == \E raw \in EditNames : SavePartClick(raw)

NextEdit ==
    \/ AddPiece
    \/ Resize
    \/ Toggle
    \/ Clear
    \/ EditSaveAs
    \/ Load

SpecEdit == Init /\ [][NextEdit]_vars

\* ------------------------------------------------- the buffer on its own
\* The handlers that write the pattern buffer, nothing saved.
NextGrid ==
    \/ AddPiece
    \/ Resize
    \/ Toggle
    \/ Clear

SpecGrid == Init /\ [][NextGrid]_vars

\* ------------------------------------------------ the kit up to the pool
CapResize == \E n \in 1..MaxNewSteps : StepsChange(n)
CapAddPiece == \E name \in PieceNames : AddPieceClick(name)
CapToggle == \E step \in ClickSteps : GridMouseDown(Len(InitialKit), step)

NextCap ==
    \/ CapAddPiece
    \/ CapResize
    \/ CapToggle

SpecCap == Init /\ [][NextCap]_vars

\* C6. Auto-save consistency: with the active pointer on a name, after a
\* buffer mutation (toggle, resize, clear, a track added) the library entry
\* under that name is deep-equal to the buffer.
BufferMutations == { "toggle", "resize", "clear", "addPiece" }

C6_AutoSaveConsistent ==
    (lastOp \in BufferMutations /\ Truthy(currentActivePattern)) =>
        patternLibrary[currentActivePattern] = gridData

\* C9. As claimed: the add-piece click fails only once 24 adds succeeded.
C9_TwentyFourAdds ==
    lastOp = "addPieceFull" => addsOk = Len(NOTE_POOL)

\* C9, amended. The registry starts with the 8 tracks of the initial kit,
\* which hold 8 of the pool's 24 notes: adds succeed while the registry has
\* fewer than 24 tracks, 16 times in all, and the 17th fails; no two tracks
\* share a note.
C9_CapacityFromInitialKit ==
    /\ Len(drumKit) = Len(InitialKit) + addsOk
    /\ Len(drumKit) <= Len(NOTE_POOL)
    /\ Cardinality(UsedNotes(drumKit)) = Len(drumKit)
    /\ lastOp = "addPieceFull" =>
           /\ Len(drumKit) = Len(NOTE_POOL)
           /\ addsOk = Len(NOTE_POOL) - Len(InitialKit)

\* The add-piece click has failed on the full registry.
C9_Witness ==
    /\ lastOp = "addPieceFull"
    /\ addsOk = Len(NOTE_POOL) - Len(InitialKit)
    /\ Len(gridData) = Len(NOTE_POOL)

\* C10. Resize preservation: every resized row has the new length, keeps
\* the old cells below min(old, new) and is 0 from the old length on; a
\* resize to n and back to the old length keeps the cells below min(n, old)
\* and zeroes the others.
ResizeTargets == (1..(MaxNewSteps + 1)) \cup { currentSteps }

Min(a, b) == IF a <= b THEN a ELSE b

C10_ResizePreserves ==
    \A n \in ResizeTargets :
        LET resized == AdjustGridSize(gridData, n)
            back    == AdjustGridSize(resized, currentSteps)
        IN  /\ Len(resized) = Len(gridData)
            /\ \A r \in 1..Len(gridData) :
                   LET old == Len(gridData[r]) IN
                   /\ Len(resized[r]) = n
                   /\ \A i \in 1..n :
                          resized[r][i] = IF i <= Min(old, n) THEN gridData[r][i] ELSE 0
                   /\ Len(back[r]) = old
                   /\ \A i \in 1..old :
                          back[r][i] = IF i <= Min(n, old) THEN gridData[r][i] ELSE 0

\* A resize has run on a buffer with an active cell it kept.
C10_Witness ==
    /\ lastOp = "resize"
    /\ currentSteps = MaxNewSteps
    /\ gridData[1][1] = 1
    /\ gridData[1][MaxNewSteps] = 0

\* C11. Load merge correctness: a load of n, stored with k rows, into a
\* registry of t >= k tracks leaves the pointer on n, the step count at the
\* stored row 0's length and a buffer of t rows: the k stored rows, then
\* zero rows of that step count; the library is as it was before the load,
\* and a later toggle under another active name leaves the entry alone.
C11_LoadMerges ==
    [][ /\ lastOp' = "toggle" =>
               \A m \in DOMAIN patternLibrary :
                   m # currentActivePattern =>
                       HasOwn(patternLibrary', m) /\ patternLibrary'[m] = patternLibrary[m]
        /\ lastOp' = "load" =>
          LET n == currentActivePattern'
              stored == patternLibrary[n]
              k == Len(stored)
              t == Len(drumKit)
          IN  /\ HasOwn(patternLibrary, n)
              /\ patternLibrary' = patternLibrary
              /\ drumKit' = drumKit
              /\ k <= t
              /\ currentSteps' = Len(stored[1])
              /\ Len(gridData') = t
              /\ \A r \in 1..k : gridData'[r] = stored[r]
              /\ \A r \in (k + 1)..t :
                     /\ Len(gridData'[r]) = currentSteps'
                     /\ \A i \in 1..currentSteps' : gridData'[r][i] = 0
      ]_vars

\* A pattern stored with the 8 rows of the initial kit, an active cell in
\* it, has been loaded into a registry of 9 tracks.
C11_Witness ==
    /\ lastOp = "load"
    /\ Len(drumKit) = Len(InitialKit) + 1
    /\ Len(patternLibrary[currentActivePattern]) = Len(InitialKit)
    /\ patternLibrary[currentActivePattern][1][1] = 1
    /\ Len(gridData) = Len(drumKit)

\* ------------------------------------------------------ the export's run
\* The transport and the export button over a short song.
ExportBars == { 0 }
ExportSaveNames == { <<"A">> }

ExportResize == \E n \in 1..MaxNewSteps : StepsChange(n)
ExportSaveAs ==
    \E raw \in ExportSaveNames : currentSteps <= MaxNewSteps /\ SavePartClick(raw)
ExportPlace == \E bar \in ExportBars, raw \in ExportSaveNames : TimelineMouseDown(bar, raw)

NextExport ==
    \/ ExportResize
    \/ ExportSaveAs
    \/ ExportPlace
    \/ Tick
    \/ PlayClick
    \/ ExportClick
    \/ ExportDue
    \/ ExportSaved

SpecExport == Init /\ [][NextExport]_vars

\* C12. Export orchestration: the export starts its playback at global
\* tick 0, and when its wait is over, playback not having run before the
\* export, the scheduler is Stopped with the counter back at 0.
C12_ExportEndsAtZero ==
    /\ lastOp = "export" => (transportState = "started" /\ globalStep = 0)
    /\ (/\ lastOp = "exportTimeout"
        /\ \A i \in 1..Len(exports) : ~exports[i].wasPlaying)
           => (transportState = "stopped" /\ globalStep = 0)

\* ------------------------------------------------- what the song plays
\* Two cells' worth of editing, two names, one bar, and the transport.
EmitRows == { 0, 1 }
EmitSteps == { 0 }
EmitNames == { <<"A">>, <<Blank, "B", Blank>> }
EmitBars == { 0 }

EmitResize == \E n \in 1..MaxNewSteps : StepsChange(n)
EmitToggle == \E row \in EmitRows, step \in EmitSteps : GridMouseDown(row, step)
EmitSaveAs ==
    \E raw \in EmitNames : currentSteps <= MaxNewSteps /\ SavePartClick(raw)
EmitPlace == \E bar \in EmitBars, raw \in EmitNames : TimelineMouseDown(bar, raw)

NextEmit ==
    \/ EmitResize
    \/ EmitToggle
    \/ EmitSaveAs
    \/ EmitPlace
    \/ Tick
    \/ PlayClick

SpecEmit == Init /\ [][NextEmit]_vars

\* The rows of a stored pattern whose cell at local step s is set.
Hits(pattern, s) == { r \in 1..Len(pattern) : pattern[r][s + 1] = 1 }

\* C13. Emission: a tick that resolves to pattern P and local step s emits
\* one trigger per row r of the library's stored P with P[r][s] = 1, to
\* track r's note, and nothing else; a tick that resolves to no block emits
\* nothing. The cells are the library's, whatever the buffer holds.
C13_EmitsStoredCells ==
    lastOp = "tick" =>
        IF tickObs.idx = 0
        THEN emitted = << >>
        ELSE LET P == patternLibrary[songTimeline[tickObs.idx].name]
                 hits == Hits(P, tickObs.localStep)
             IN  /\ Len(emitted) = Cardinality(hits)
                 /\ \A r \in hits :
                        \E i \in 1..Len(emitted) : emitted[i] = drumKit[r].note
                 /\ \A i \in 1..Len(emitted) :
                        \E r \in hits : emitted[i] = drumKit[r].note

C13_Witness ==
    /\ lastOp = "tick"
    /\ tickObs.idx # 0
    /\ Len(emitted) = 2
    /\ tickObs.localStep < currentSteps
    /\ gridData[1][tickObs.localStep + 1] = 0
    /\ gridData[2][tickObs.localStep + 1] = 0

\* C14. Library isolation: a toggle, resize, clear or added track changes
\* at most the entry under the active name and nothing when the pointer is
\* null; a save as n writes the buffer under n and changes no other entry.
C14_LibraryIsolation ==
    [][ /\ lastOp' \in BufferMutations =>
               /\ currentActivePattern' = currentActivePattern
               /\ DOMAIN patternLibrary' \subseteq
                      (DOMAIN patternLibrary) \cup { currentActivePattern }
               /\ \A m \in DOMAIN patternLibrary :
                      m # currentActivePattern =>
                          /\ HasOwn(patternLibrary', m)
                          /\ patternLibrary'[m] = patternLibrary[m]
               /\ ~Truthy(currentActivePattern) => patternLibrary' = patternLibrary
        /\ lastOp' = "saveAs" =>
               /\ DOMAIN patternLibrary' =
                      (DOMAIN patternLibrary) \cup { currentActivePattern' }
               /\ patternLibrary'[currentActivePattern'] = gridData
               /\ \A m \in DOMAIN patternLibrary :
                      m # currentActivePattern' =>
                          patternLibrary'[m] = patternLibrary[m]
      ]_vars

\* A toggle under the name A has left the other entry, B, with cells the
\* buffer no longer has.
C14_Witness ==
    /\ lastOp = "toggle"
    /\ currentActivePattern = NameA
    /\ HasOwn(patternLibrary, NameB)
    /\ patternLibrary[NameA] = gridData
    /\ patternLibrary[NameB] # gridData
    /\ patternLibrary[NameB][1][1] = 1

\* C15. Row alignment: in every reachable state the buffer has one row per
\* track of the registry and every row is as long as the step count, with
\* cells 0 or 1, across resize, toggle, add track, load, save and clear.
C15_RowAlignment ==
    /\ Len(gridData) = Len(drumKit)
    /\ \A r \in 1..Len(gridData) :
           /\ Len(gridData[r]) = currentSteps
           /\ \A i \in 1..currentSteps : gridData[r][i] \in { 0, 1 }

\* A load of a pattern saved before a track was added, at a step count
\* other than the default: the added track's row was padded.
C15_Witness ==
    /\ lastOp = "load"
    /\ currentSteps = 2
    /\ Len(drumKit) = Len(InitialKit) + 1
    /\ Len(patternLibrary[currentActivePattern]) = Len(InitialKit)
    /\ gridData[Len(drumKit)] = << 0, 0 >>

\* ------------------------------------------------ the grid and the sampler
\* The buffer's handlers, with samples being loaded into the sampler.
NextAudition ==
    \/ AddPiece
    \/ Resize
    \/ Toggle
    \/ Clear
    \/ UploadChange
    \/ UploadDone

SpecAudition == Init /\ [][NextAudition]_vars

\* The cells, as <<row, step>> (0-based), where two buffers of the same
\* shape differ.
Changed(old, new) ==
    { c \in (0..(Len(old) - 1)) \X (0..(currentSteps - 1)) :
          old[c[1] + 1][c[2] + 1] # new[c[1] + 1][c[2] + 1] }

\* A toggle step's effect on the buffer and its frame: one cell flipped,
\* the shape, the step count, the registry and the timeline as before, and
\* a second toggle of that cell gives the buffer back.
FlipsOneCell(c) ==
    /\ Changed(gridData, gridData') = { c }
    /\ gridData'[c[1] + 1][c[2] + 1] = 1 - gridData[c[1] + 1][c[2] + 1]
    /\ Len(gridData') = Len(gridData)
    /\ \A r \in 1..Len(gridData) : Len(gridData'[r]) = Len(gridData[r])
    /\ currentSteps' = currentSteps
    /\ drumKit' = drumKit
    /\ songTimeline' = songTimeline
    /\ FlipCell(gridData', c[1], c[2]) = gridData

\* C16, as claimed. An in-range toggle flips exactly its cell and sends one
\* audition trigger for the cell's track if and only if the new value is 1.
C16_AuditionIffSet ==
    [][ lastOp' = "toggle" =>
            \E c \in (0..(Len(drumKit) - 1)) \X (0..(currentSteps - 1)) :
                /\ FlipsOneCell(c)
                /\ emitted' = IF gridData'[c[1] + 1][c[2] + 1] = 1
                              THEN << drumKit[c[1] + 1].note >> ELSE << >>
      ]_vars

\* C16, amended. An in-range toggle flips exactly its cell, leaves every
\* other cell, the step count, the registry and the timeline unchanged, and
\* two toggles of a cell restore the buffer; it sends one audition trigger
\* for the cell's track if and only if the new value is 1 and the sampler
\* reports its samples loaded.
C16_AuditionIffSetAndLoaded ==
    [][ lastOp' = "toggle" =>
            \E c \in (0..(Len(drumKit) - 1)) \X (0..(currentSteps - 1)) :
                /\ FlipsOneCell(c)
                /\ emitted' = IF gridData'[c[1] + 1][c[2] + 1] = 1 /\ kitLoaded
                              THEN << drumKit[c[1] + 1].note >> ELSE << >>
      ]_vars

\* A cell was set while a sample was still loading: no audition.
C16_Witness ==
    /\ lastOp = "toggle"
    /\ ~kitLoaded
    /\ gridData[1][1] = 1
    /\ gridData[1][2] = 0
    /\ emitted = << >>

\* C17. The scheduler never errors: no tick throws; every stored pattern
\* the timeline names has a row 0 of positive length and rows all of that
\* length with cells 0 or 1, and a tick that matched an entry has its
\* localStep within that length.
C17_SchedulerNeverErrors ==
    /\ lastOp # "tickThrew"
    /\ \A e \in Entries(songTimeline) :
           HasOwn(patternLibrary, e.name) =>
               LET P == patternLibrary[e.name] IN
               /\ Len(P) > 0
               /\ Len(P[1]) > 0
               /\ \A r \in 1..Len(P) :
                      /\ Len(P[r]) = Len(P[1])
                      /\ \A i \in 1..Len(P[r]) : P[r][i] \in { 0, 1 }
    /\ (lastOp = "tick" /\ tickObs.idx # 0) =>
           /\ HasOwn(patternLibrary, songTimeline[tickObs.idx].name)
           /\ tickObs.localStep >= 0
           /\ tickObs.localStep < PatLen(patternLibrary, songTimeline[tickObs.idx])

\* C18. No dangling placements: every timeline entry names a pattern the
\* library holds.
C18_NoDanglingPlacements ==
    \A i \in 1..Len(songTimeline) : HasOwn(patternLibrary, songTimeline[i].name)

\* C19. Active pointer validity: the pointer is null or the name of a
\* library entry; no step takes it from a name back to null or removes a
\* library entry, and with the pointer on a name every toggle, resize and
\* clear leaves the buffer stored under it.
C19_PointerValid ==
    [][ /\ currentActivePattern' = Null \/ HasOwn(patternLibrary', currentActivePattern')
        /\ Truthy(currentActivePattern) => Truthy(currentActivePattern')
        /\ DOMAIN patternLibrary \subseteq DOMAIN patternLibrary'
        /\ (lastOp' \in { "toggle", "resize", "clear" } /\ Truthy(currentActivePattern)) =>
               /\ HasOwn(patternLibrary, currentActivePattern')
               /\ patternLibrary'[currentActivePattern'] = gridData'
      ]_vars

\* A clear under the name B, after B was loaded back: the stored B is the
\* cleared buffer, the stored A still has its cell.
C19_Witness ==
    /\ lastOp = "clear"
    /\ currentActivePattern = NameB
    /\ HasOwn(patternLibrary, NameA)
    /\ patternLibrary[NameA][1][1] = 1
    /\ patternLibrary[NameB] = gridData
    /\ Len(gridData) = Len(InitialKit) + 1

\* C20. Tick frame: a tick leaves the library, the buffer, the step count,
\* the active pointer, the registry, the recorder and the sampler as they
\* were, and the timeline with the same entries, as many as before; only
\* the counter and the transport's state may change.
C20_TickFrame ==
    [][ lastOp' \in TickOps =>
            /\ UNCHANGED << patternLibrary, gridData, currentSteps,
                            currentActivePattern, drumKit, recorderState,
                            exports, kitLoaded >>
            /\ Entries(songTimeline') = Entries(songTimeline)
            /\ Len(songTimeline') = Len(songTimeline)
      ]_vars

\* A tick has played from a timeline of two entries, now in bar order.
C20_Witness ==
    /\ lastOp = "tick"
    /\ tickObs.idx = 2
    /\ Len(songTimeline) = 2
    /\ songTimeline[1].startBar < songTimeline[2].startBar
    /\ songTimeline[1].name # songTimeline[2].name

====
